---- MODULE Spec2Model ----
(***************************************************************************)
(* pardon-prizes: the prize pool program of                                *)
(* programs/pardon-prizes/src/lib.rs as a state machine.                   *)
(*                                                                         *)
(* One step of the model is one transaction holding one instruction of    *)
(* the program (initialize_prize_pool, distribute_prizes,                  *)
(* close_prize_pool) or one deposit of tokens into a pool's token account. *)
(* An instruction that returns Err aborts its transaction: no account      *)
(* write of it is kept and its events are not delivered.                   *)
(*                                                                         *)
(* Token accounts: every identity holds one token account (wallet) and     *)
(* every pool one (custody), the account the pool's address may sign for.  *)
(* distribute_prizes takes winner_token_account from its caller, so it is  *)
(* an input of the action; close_prize_pool is modelled with               *)
(* authority_token_account = the signer's own token account.               *)
(*                                                                         *)
(* deposited, status, ever_closed, paid, returned, emitted and             *)
(* distributed observe the run for the properties (deposits and payments   *)
(* so far, the lifecycle of the record, the events of the record); no      *)
(* action reads them.                                                      *)
(*                                                                         *)
(* u64 is modelled with U64Bits bits: the arithmetic of the program is     *)
(* kept (multiply, divide, add, in that order, with the program's          *)
(* constants), only the width is scaled so that the values fit the model   *)
(* checker's integers.                                                     *)
(***************************************************************************)
EXTENDS Integers, Sequences, FiniteSets, TLC

\* ---------------------------------------------------------------- bounds
U64Bits == 16
MaxCalls == 3
MaxFunds == 1

U64Max == 2^U64Bits - 1

\* ------------------------------------------------------- program constants
MinScore == 80
MaxRank == 10
Pct1 == 50
Pct2 == 20
Pct3 == 10
PctRest == 20
RestRanks == 7
Hundred == 100

\* ------------------------------------------------------------ input sets
Ids == {"alice", "bob"}
Periods == {"week1"}

\* The smallest balance whose rank-1 product total * 50 leaves the u64 range.
BigDeposit == (U64Max \div Pct1) + 1
FundAmounts == {1000, BigDeposit}

WinnerEntry(w, r, s) == [wallet |-> w, rank |-> r, score |-> s]

\* One winner per rank 1..10, the wallets alternating.
FullBatch ==
    [r \in 1..MaxRank |-> WinnerEntry(IF r % 2 = 1 THEN "alice" ELSE "bob", r, MinScore)]

\* The batches distribute_prizes is called with: empty, valid (one wallet, two
\* wallets, a rank repeated, the full ranking) and invalid (a
\* rank below or above the range, a score below the minimum, before or after
\* valid entries, both faults in one entry).
Batches ==
    { <<>>,
      <<WinnerEntry("alice", 1, 80)>>,
      <<WinnerEntry("alice", 1, 80), WinnerEntry("bob", 2, 80)>>,
      <<WinnerEntry("alice", 1, 80), WinnerEntry("bob", 1, 80)>>,
      <<WinnerEntry("alice", 1, 80), WinnerEntry("alice", 1, 80), WinnerEntry("bob", 2, 80)>>,
      FullBatch,
      <<WinnerEntry("alice", 1, 80), WinnerEntry("bob", 11, 80)>>,
      <<WinnerEntry("alice", 0, 80), WinnerEntry("bob", 2, 80)>>,
      <<WinnerEntry("alice", 1, 80), WinnerEntry("bob", 2, 79)>>,
      <<WinnerEntry("bob", 2, 79), WinnerEntry("alice", 0, 80)>>,
      <<WinnerEntry("bob", 11, 79)>> }

\* ------------------------------------------------------------------ state
VARIABLES
    prize_pool,       \* week_id -> the PrizePool account (or NoAccount)
    custody,          \* week_id -> amount of the pool's token account
    wallet,           \* identity -> amount of that identity's token account
    overflow_checks,  \* the build: TRUE = arithmetic overflow panics, FALSE = it wraps
    deposited,        \* week_id -> tokens ever deposited into the pool's token account
    status,           \* week_id -> lifecycle of the record: "Absent", "Open", "Closed"
    ever_closed,      \* week_id -> a close_prize_pool has succeeded for it
    paid,             \* week_id -> tokens distribute_prizes has moved to recipients
    returned,         \* week_id -> tokens close_prize_pool has moved to the authority
    emitted,          \* week_id -> sum of the amounts of the events of the live record
    distributed,      \* week_id -> a distribute_prizes has succeeded on the live record
    calls,            \* number of transactions that changed the accounts
    funds,            \* number of deposits made
    last              \* the last transaction: its instruction, inputs and outcome

vars == <<prize_pool, custody, wallet, overflow_checks, deposited, status,
          ever_closed, paid, returned, emitted, distributed, calls, funds, last>>

NoAccount == [live |-> FALSE, authority |-> "none", total_distributed |-> 0]

PrizePool(a, t) == [live |-> TRUE, authority |-> a, total_distributed |-> t]

PrizeDistributed(w, amount, week_id) ==
    [winner |-> w.wallet, rank |-> w.rank, score |-> w.score,
     amount |-> amount, week_id |-> week_id]

Call(op, p, caller, acct, winners, result, avail, amounts, events) ==
    [op |-> op, week_id |-> p, caller |-> caller, acct |-> acct, winners |-> winners,
     result |-> result, total_available |-> avail, amounts |-> amounts,
     events |-> events]

NoCall == Call("none", "none", "none", "none", <<>>, "ok", 0, <<>>, <<>>)

\* ------------------------------------------------------------- arithmetic
\* u64 multiplication and addition as a build without overflow checks
\* computes them; Overflows tells when a checked build panics instead.
WrapU64(x) == x % (U64Max + 1)

Overflows(x) == x > U64Max

Pct(rank) ==
    CASE rank = 1 -> Pct1
      [] rank = 2 -> Pct2
      [] rank = 3 -> Pct3
      [] rank >= 4 /\ rank <= MaxRank -> PctRest
      [] OTHER -> 0

\* Faulty variant: each of the ranks 4..MaxRank is given the whole rest tier.
calculate_prize_NoSplit(rank, total) ==
    CASE rank = 1 -> WrapU64(total * Pct1) \div Hundred
      [] rank = 2 -> WrapU64(total * Pct2) \div Hundred
      [] rank = 3 -> WrapU64(total * Pct3) \div Hundred
      [] rank >= 4 /\ rank <= MaxRank -> WrapU64(total * PctRest) \div Hundred
      [] OTHER -> 0

\* Faulty variant: divides before it multiplies.
calculate_prize_DivideFirst(rank, total) ==
    CASE rank = 1 -> WrapU64((total \div Hundred) * Pct1)
      [] rank = 2 -> WrapU64((total \div Hundred) * Pct2)
      [] rank = 3 -> WrapU64((total \div Hundred) * Pct3)
      [] rank >= 4 /\ rank <= MaxRank -> WrapU64((total \div Hundred) * PctRest) \div RestRanks
      [] OTHER -> 0

calculate_prize(rank, total) ==
    CASE rank = 1 -> WrapU64(total * Pct1) \div Hundred
      [] rank = 2 -> WrapU64(total * Pct2) \div Hundred
      [] rank = 3 -> WrapU64(total * Pct3) \div Hundred
      [] rank >= 4 /\ rank <= MaxRank -> (WrapU64(total * PctRest) \div Hundred) \div RestRanks
      [] OTHER -> 0

calculate_prize_overflows(rank, total) == Overflows(total * Pct(rank))

\* ------------------------------------------------------------- validation
RankOk(w) == w.rank > 0 /\ w.rank <= MaxRank

ScoreOk(w) == w.score >= MinScore

\* Faulty variant: the validation loop without its score check.
ValidateWinnersNoScore(winners) ==
    IF \E i \in 1..Len(winners) : ~RankOk(winners[i]) THEN "InvalidRank" ELSE "ok"

\* The validation loop of distribute_prizes: the error of the first entry that
\* fails a require!, the rank check before the score check; "ok" otherwise.
ValidateWinners(winners) ==
    LET bad == { i \in 1..Len(winners) : ~RankOk(winners[i]) \/ ~ScoreOk(winners[i]) }
    IN  IF bad = {} THEN "ok"
        ELSE LET i == CHOOSE j \in bad : \A k \in bad : j <= k
             IN  IF ~RankOk(winners[i]) THEN "InvalidRank" ELSE "ScoreTooLow"

\* ------------------------------------------------------------ transactions
\* Faulty variant: the transfers made before a failed transfer are kept.
CommittedPartial(result) == result \in {"ok", "CustodyFailure"}

\* An instruction that returns Err (a failed require!, an error propagated by ?,
\* a panic) aborts the transaction; only an Ok result is committed.
Committed(result) == result = "ok"

\* token::transfer(from -> to, amount) of the token program, on the two amounts:
\* rejected when the source holds less than amount (or the destination would
\* leave the u64 range), else the amount moves.
TransferOk(from_amount, to_amount, amount) ==
    amount <= from_amount /\ ~Overflows(to_amount + amount)

\* Faulty variant: the accumulator counts every prize twice.
AccumulateTwice(total_distributed, prize_amount) == total_distributed + 2 * prize_amount

\* prize_pool.total_distributed += prize_amount
Accumulate(total_distributed, prize_amount) == total_distributed + prize_amount

\* The state the second loop of distribute_prizes works on.
LoopState(c, d, t, amounts, events, result) ==
    [custody |-> c, dest |-> d, total_distributed |-> t, amounts |-> amounts,
     events |-> events, result |-> result]

\* Faulty variant: every prize is computed from the balance that is left.
PayWinnerRunning(w, week_id, total_available, checks, st) ==
    IF checks /\ calculate_prize_overflows(w.rank, st.custody)
    THEN [st EXCEPT !.result = "Panic"]
    ELSE
      LET prize_amount == calculate_prize(w.rank, st.custody)
          computed == [st EXCEPT !.amounts = Append(@, prize_amount)]
          sum == Accumulate(st.total_distributed, prize_amount)
      IN  IF prize_amount > 0
          THEN IF ~TransferOk(st.custody, st.dest, prize_amount)
               THEN [computed EXCEPT !.result = "CustodyFailure"]
               ELSE IF checks /\ Overflows(sum)
               THEN [computed EXCEPT !.custody = @ - prize_amount,
                                     !.dest = @ + prize_amount,
                                     !.result = "Panic"]
               ELSE [computed EXCEPT !.custody = @ - prize_amount,
                                     !.dest = @ + prize_amount,
                                     !.total_distributed = WrapU64(sum),
                                     !.events = Append(@, PrizeDistributed(w, prize_amount, week_id))]
          ELSE computed

\* One iteration of "for winner in &winners" (the transfer loop), for winner w.
PayWinner(w, week_id, total_available, checks, st) ==
    IF checks /\ calculate_prize_overflows(w.rank, total_available)
    THEN [st EXCEPT !.result = "Panic"]
    ELSE
      LET prize_amount == calculate_prize(w.rank, total_available)
          computed == [st EXCEPT !.amounts = Append(@, prize_amount)]
          sum == Accumulate(st.total_distributed, prize_amount)
      IN  IF prize_amount > 0
          THEN IF ~TransferOk(st.custody, st.dest, prize_amount)
               THEN [computed EXCEPT !.result = "CustodyFailure"]
               ELSE IF checks /\ Overflows(sum)
               THEN [computed EXCEPT !.custody = @ - prize_amount,
                                     !.dest = @ + prize_amount,
                                     !.result = "Panic"]
               ELSE [computed EXCEPT !.custody = @ - prize_amount,
                                     !.dest = @ + prize_amount,
                                     !.total_distributed = WrapU64(sum),
                                     !.events = Append(@, PrizeDistributed(w, prize_amount, week_id))]
          ELSE computed

RECURSIVE TransferLoop(_, _, _, _, _, _)
TransferLoop(winners, i, week_id, total_available, checks, st) ==
    IF i > Len(winners) \/ st.result # "ok"
    THEN st
    ELSE TransferLoop(winners, i + 1, week_id, total_available, checks,
                      PayWinner(winners[i], week_id, total_available, checks, st))

\* The account validation of Account<'info, PrizePool>: the account must hold
\* a PrizePool of this program.
AccountLive(p) == prize_pool[p].live

\* ------------------------------------------------------------------ actions
\* A deposit of amt tokens from a wallet into the token account of pool p.
Fund(p, from, amt) ==
    /\ calls < MaxCalls
    /\ funds < MaxFunds
    /\ amt <= wallet[from]
    /\ custody' = [custody EXCEPT ![p] = @ + amt]
    /\ wallet' = [wallet EXCEPT ![from] = @ - amt]
    /\ deposited' = [deposited EXCEPT ![p] = @ + amt]
    /\ calls' = calls + 1
    /\ funds' = funds + 1
    /\ last' = Call("fund", p, from, from, <<>>, "ok", custody[p], <<amt>>, <<>>)
    /\ UNCHANGED <<prize_pool, overflow_checks, status, ever_closed, paid, returned, emitted,
                   distributed>>

\* Faulty variant: init_if_needed in place of init, an existing record is overwritten.
InitializeAlways(p) == "ok"

\* The outcome of initialize_prize_pool(week_id = p) signed by caller: the init
\* constraint rejects an address that already holds an account.
InitializeResult(p) == IF AccountLive(p) THEN "AlreadyExists" ELSE "ok"

InitializePrizePool(p, caller) ==
    LET result == InitializeResult(p)
    IN  /\ last' = Call("initialize", p, caller, caller, <<>>, result, custody[p], <<>>, <<>>)
        /\ IF Committed(result)
           THEN /\ calls < MaxCalls
                /\ prize_pool' = [prize_pool EXCEPT ![p] = PrizePool(caller, 0)]
                /\ status' = [status EXCEPT ![p] = "Open"]
                /\ emitted' = [emitted EXCEPT ![p] = 0]
                /\ distributed' = [distributed EXCEPT ![p] = FALSE]
                /\ calls' = calls + 1
           ELSE UNCHANGED <<prize_pool, status, emitted, distributed, calls>>
        /\ UNCHANGED <<custody, wallet, overflow_checks, deposited, ever_closed, paid,
                       returned, funds>>

\* The checks of distribute_prizes before its transfer loop, in the order of
\* the code: account validation, authority, balance, validation of the batch.
\* Faulty variant: the balance is checked before the authority.
DistributeChecksBalanceFirst(p, caller, winners) ==
    IF ~AccountLive(p) THEN "AccountNotInitialized"
    ELSE IF ~(custody[p] > 0) THEN "InsufficientFunds"
    ELSE IF prize_pool[p].authority # caller THEN "Unauthorized"
    ELSE ValidateWinners(winners)

DistributeChecks(p, caller, winners) ==
    IF ~AccountLive(p) THEN "AccountNotInitialized"
    ELSE IF prize_pool[p].authority # caller THEN "Unauthorized"
    ELSE IF ~(custody[p] > 0) THEN "InsufficientFunds"
    ELSE ValidateWinners(winners)

\* distribute_prizes(winners) on pool p, signed by caller, with
\* winner_token_account = the token account of acct.
DistributeOutcome(p, caller, acct, winners) ==
    LET pre == DistributeChecks(p, caller, winners)
        st0 == LoopState(custody[p], wallet[acct], prize_pool[p].total_distributed,
                         <<>>, <<>>, pre)
    IN  IF pre # "ok" THEN st0
        ELSE TransferLoop(winners, 1, p, custody[p], overflow_checks, st0)

\* The sum of the amounts of the events q.
RECURSIVE SumAmounts(_)
SumAmounts(q) == IF q = <<>> THEN 0 ELSE Head(q).amount + SumAmounts(Tail(q))

DistributePrizes(p, caller, acct, winners) ==
    LET st == DistributeOutcome(p, caller, acct, winners)
    IN  /\ IF Committed(st.result)
           THEN /\ calls < MaxCalls
                /\ prize_pool' = [prize_pool EXCEPT ![p].total_distributed = st.total_distributed]
                /\ custody' = [custody EXCEPT ![p] = st.custody]
                /\ wallet' = [wallet EXCEPT ![acct] = st.dest]
                /\ paid' = [paid EXCEPT ![p] = @ + (custody[p] - st.custody)]
                /\ emitted' = [emitted EXCEPT ![p] = @ + SumAmounts(st.events)]
                /\ distributed' = [distributed EXCEPT ![p] = TRUE]
                /\ calls' = calls + (IF st.events = <<>> THEN 0 ELSE 1)
                /\ last' = Call("distribute", p, caller, acct, winners, st.result,
                                custody[p], st.amounts, st.events)
           ELSE /\ UNCHANGED <<prize_pool, custody, wallet, paid, emitted, distributed,
                              calls>>
                /\ last' = Call("distribute", p, caller, acct, winners, st.result,
                                custody[p], st.amounts, <<>>)
        /\ UNCHANGED <<overflow_checks, deposited, status, ever_closed, returned, funds>>

\* Faulty variant: close_prize_pool returns only half of the balance.
RemainingHalf(p) == custody[p] \div 2

\* The balance close_prize_pool returns: the amount of the pool's token account.
Remaining(p) == custody[p]

\* Faulty variant: the close = authority constraint is missing, the record stays.
KeptAccount(account) == account

\* What close = authority leaves at the address of the PrizePool account.
ClosedAccount(account) == NoAccount

\* The checks of close_prize_pool: account validation, the has_one = authority
\* constraint, then the handler's own require! on the authority.
CloseChecks(p, caller) ==
    IF ~AccountLive(p) THEN "AccountNotInitialized"
    ELSE IF prize_pool[p].authority # caller THEN "ConstraintHasOne"
    ELSE IF prize_pool[p].authority # caller THEN "Unauthorized"
    ELSE "ok"

\* close_prize_pool on pool p, signed by caller, with authority_token_account =
\* the signer's token account.
CloseOutcome(p, caller) ==
    LET pre == CloseChecks(p, caller)
        remaining == Remaining(p)
    IN  IF pre # "ok" THEN [result |-> pre, moved |-> 0, transfers |-> <<>>]
        ELSE IF remaining > 0
        THEN IF TransferOk(custody[p], wallet[caller], remaining)
             THEN [result |-> "ok", moved |-> remaining, transfers |-> <<remaining>>]
             ELSE [result |-> "CustodyFailure", moved |-> 0, transfers |-> <<remaining>>]
        ELSE [result |-> "ok", moved |-> 0, transfers |-> <<>>]

ClosePrizePool(p, caller) ==
    LET out == CloseOutcome(p, caller)
    IN  /\ last' = Call("close", p, caller, caller, <<>>, out.result, custody[p],
                        out.transfers, <<>>)
        /\ IF Committed(out.result)
           THEN /\ calls < MaxCalls
                /\ custody' = [custody EXCEPT ![p] = @ - out.moved]
                /\ wallet' = [wallet EXCEPT ![caller] = @ + out.moved]
                /\ prize_pool' = [prize_pool EXCEPT ![p] = ClosedAccount(@)]
                /\ status' = [status EXCEPT ![p] = "Closed"]
                /\ ever_closed' = [ever_closed EXCEPT ![p] = TRUE]
                /\ returned' = [returned EXCEPT ![p] = @ + out.moved]
                /\ calls' = calls + 1
           ELSE UNCHANGED <<prize_pool, custody, wallet, status, ever_closed, returned,
                            calls>>
        /\ UNCHANGED <<overflow_checks, deposited, paid, emitted, distributed, funds>>

\* ------------------------------------------------------------ initial states
\* No pool exists yet; alice holds the whole supply of the token.
InitFresh ==
    /\ prize_pool = [p \in Periods |-> NoAccount]
    /\ custody = [p \in Periods |-> 0]
    /\ wallet = [i \in Ids |-> IF i = "alice" THEN U64Max ELSE 0]
    /\ deposited = [p \in Periods |-> 0]
    /\ paid = [p \in Periods |-> 0]
    /\ emitted = [p \in Periods |-> 0]
    /\ distributed = [p \in Periods |-> FALSE]
    /\ status = [p \in Periods |-> "Absent"]

\* A pool of alice's that has been distributing recirculated tokens for a long
\* time: its accumulator is AgedGap below the largest u64.
AgedGap == 600
AgedBalance == 1000

InitAged ==
    /\ prize_pool = [p \in Periods |-> PrizePool("alice", U64Max - AgedGap)]
    /\ custody = [p \in Periods |-> AgedBalance]
    /\ wallet = [i \in Ids |-> IF i = "alice"
                               THEN U64Max - AgedBalance * Cardinality(Periods) ELSE 0]
    /\ deposited = [p \in Periods |-> (U64Max - AgedGap) + AgedBalance]
    /\ paid = [p \in Periods |-> U64Max - AgedGap]
    /\ emitted = [p \in Periods |-> U64Max - AgedGap]
    /\ distributed = [p \in Periods |-> TRUE]
    /\ status = [p \in Periods |-> "Open"]

Init ==
    /\ InitFresh \/ InitAged
    /\ overflow_checks \in BOOLEAN
    /\ ever_closed = [p \in Periods |-> FALSE]
    /\ returned = [p \in Periods |-> 0]
    /\ calls = 0
    /\ funds = 0
    /\ last = NoCall

Next ==
    \/ \E p \in Periods, from \in Ids, amt \in FundAmounts : Fund(p, from, amt)
    \/ \E p \in Periods, caller \in Ids : InitializePrizePool(p, caller)
    \/ \E p \in Periods, caller \in Ids, acct \in Ids, winners \in Batches :
          DistributePrizes(p, caller, acct, winners)
    \/ \E p \in Periods, caller \in Ids : ClosePrizePool(p, caller)

Spec == Init /\ [][Next]_vars

\* ---------------------------------------------- calculate_prize on its own
\* The inputs calculate_prize is applied to: every rank around 1..MaxRank and
\* the largest u8, every total up to MaxTotal and the totals around the
\* points where total * pct leaves u64.
MaxTotal == 120

CalcRanks == 0..(MaxRank + 2) \cup {255}

CalcTotals ==
    0..MaxTotal \cup
    {1000, U64Max \div Pct1, BigDeposit, U64Max \div Pct2, (U64Max \div Pct2) + 1,
     U64Max \div Pct3, (U64Max \div Pct3) + 1, U64Max}

\* One evaluation of calculate_prize(rank, total) in the build "checks": with
\* overflow checks the multiplication panics when it leaves u64, without
\* them it wraps.
CalculateOutcome(rank, total, checks) ==
    IF checks /\ calculate_prize_overflows(rank, total)
    THEN [result |-> "Panic", amounts |-> <<>>]
    ELSE [result |-> "ok", amounts |-> <<calculate_prize(rank, total)>>]

Calculate(rank, total) ==
    LET out == CalculateOutcome(rank, total, overflow_checks)
    IN  /\ last' = Call("calculate", "none", "none", "none",
                        <<WinnerEntry("none", rank, MinScore)>>, out.result, total,
                        out.amounts, <<>>)
        /\ UNCHANGED <<prize_pool, custody, wallet, overflow_checks, deposited, status,
                       ever_closed, paid, returned, emitted, distributed, calls, funds>>

CalcInit ==
    /\ InitFresh
    /\ overflow_checks \in BOOLEAN
    /\ ever_closed = [p \in Periods |-> FALSE]
    /\ returned = [p \in Periods |-> 0]
    /\ calls = 0
    /\ funds = 0
    /\ last = NoCall

CalcNext == \E rank \in CalcRanks, total \in CalcTotals : Calculate(rank, total)

CalcSpec == CalcInit /\ [][CalcNext]_vars

\* ------------------------------------------------------------ properties
RECURSIVE SumSeq(_)
SumSeq(q) == IF q = <<>> THEN 0 ELSE Head(q) + SumSeq(Tail(q))

\* The sum of the amounts of the events of q that name w as winner.
RECURSIVE SumFor(_, _)
SumFor(q, w) ==
    IF q = <<>> THEN 0
    ELSE (IF Head(q).winner = w THEN Head(q).amount ELSE 0) + SumFor(Tail(q), w)

\* The batch passes validation as the specification words it.
BatchValid(winners) ==
    \A i \in 1..Len(winners) :
        winners[i].rank >= 1 /\ winners[i].rank <= 10 /\ winners[i].score >= 80

\* The step is the instruction op on pool p.
Did(op, p) == last'.op = op /\ last'.week_id = p

AccountsUnchanged == UNCHANGED <<prize_pool, custody, wallet>>

\* C1: for every batch that passes validation, the prize amounts
\* distribute_prizes computes for its entries sum to at most the balance read at
\* the start of the call.
C1_PrizesWithinBalance ==
    (last.op = "distribute" /\ BatchValid(last.winners))
        => SumSeq(last.amounts) <= last.total_available

\* C2: in a successful distribute_prizes every recipient's balance has risen by
\* exactly the sum of the amounts of the events that name it as winner.
C2_PaidToNamedWallet ==
    [][ \A p \in Periods :
          (Did("distribute", p) /\ last'.result = "ok")
              => \A w \in Ids : wallet'[w] = wallet[w] + SumFor(last'.events, w) ]_vars

\* C3: a batch with an invalid entry, submitted by the authority to a pool with
\* a positive balance, fails with InvalidRank or ScoreTooLow; no prize is
\* computed or transferred, no event is emitted, the record and all balances
\* stay as they were.
C3_ValidationAllOrNothing ==
    [][ \A p \in Periods :
          (/\ Did("distribute", p)
           /\ prize_pool[p].live
           /\ last'.caller = prize_pool[p].authority
           /\ custody[p] > 0
           /\ ~BatchValid(last'.winners))
              => /\ last'.result \in {"InvalidRank", "ScoreTooLow"}
                 /\ last'.amounts = <<>>
                 /\ last'.events = <<>>
                 /\ AccountsUnchanged ]_vars

\* A batch whose first entry is valid and whose second has rank 11 was rejected.
C3_Witness ==
    /\ last.op = "distribute"
    /\ last.result = "InvalidRank"
    /\ last.total_available > 0
    /\ Len(last.winners) = 2
    /\ last.winners[1].rank = 1 /\ last.winners[1].score >= 80
    /\ last.winners[2].rank = 11

\* C4: distribute_prizes and close_pool by a caller other than the stored
\* authority fail with Unauthorized and change nothing.
C4_UnauthorizedRejected ==
    [][ \A p \in Periods :
          (/\ Did("distribute", p) \/ Did("close", p)
           /\ prize_pool[p].live
           /\ last'.caller # prize_pool[p].authority)
              => /\ last'.result = "Unauthorized"
                 /\ last'.events = <<>>
                 /\ AccountsUnchanged ]_vars

\* C5: a distribute_prizes in which a transfer fails ends in CustodyFailure with
\* no effect: the record, the pool's balance and every wallet are as before and
\* no event of the batch is recorded.
C5_FailedTransferNoEffect ==
    [][ \A p \in Periods :
          (/\ Did("distribute", p)
           /\ \E i \in 1..Len(last'.amounts) :
                  SumSeq(SubSeq(last'.amounts, 1, i)) > custody[p])
              => /\ last'.result = "CustodyFailure"
                 /\ last'.events = <<>>
                 /\ AccountsUnchanged ]_vars

\* The third transfer of a batch failed after two had gone through.
C5_Witness ==
    /\ last.op = "distribute"
    /\ last.result = "CustodyFailure"
    /\ Len(last.amounts) = 3
    /\ last.amounts[1] > 0 /\ last.amounts[2] > 0
    /\ last.amounts[1] + last.amounts[2] <= last.total_available

C7_ClosedIsTerminal ==
    [][ \A p \in Periods :
          (ever_closed[p] /\ (Did("distribute", p) \/ Did("close", p)))
              => /\ last'.result # "ok"
                 /\ prize_pool'[p].total_distributed = prize_pool[p].total_distributed ]_vars

\* C7, amended: from a successful close_pool until initialize_prize_pool creates
\* a new record for the period, no record exists, every distribute_prizes and
\* close_pool on the period is rejected, and nothing changes.
C7_ClosedUntilReopened ==
    [][ \A p \in Periods :
          status[p] = "Closed"
              => /\ ~prize_pool[p].live
                 /\ (Did("distribute", p) \/ Did("close", p))
                       => /\ last'.result = "AccountNotInitialized"
                          /\ last'.events = <<>>
                          /\ AccountsUnchanged ]_vars

\* The former authority's distribute_prizes on its closed pool was rejected.
C7_Witness ==
    /\ last.op = "distribute"
    /\ status[last.week_id] = "Closed"
    /\ last.caller = "alice"
    /\ last.result = "AccountNotInitialized"
    /\ last.winners # <<>>

\* C8: initialize_prize_pool for a period that has a live record fails with
\* AlreadyExists and leaves the record as it was; otherwise it creates a record
\* with the caller as authority, total_distributed = 0 and status Open.
C8_OpenOnce ==
    [][ \A p \in Periods :
          Did("initialize", p)
              => IF prize_pool[p].live
                 THEN /\ last'.result = "AlreadyExists"
                      /\ prize_pool'[p] = prize_pool[p]
                      /\ AccountsUnchanged
                 ELSE /\ last'.result = "ok"
                      /\ prize_pool'[p].live
                      /\ prize_pool'[p].authority = last'.caller
                      /\ prize_pool'[p].total_distributed = 0
                      /\ status'[p] = "Open" ]_vars

\* A second initialize_prize_pool, by another signer, was rejected and the
\* record still names its authority.
C8_Witness ==
    /\ last.op = "initialize"
    /\ last.result = "AlreadyExists"
    /\ prize_pool[last.week_id].live
    /\ prize_pool[last.week_id].authority # last.caller
    /\ status[last.week_id] = "Open"

C10_TotalMonotonic ==
    [][ \A p \in Periods :
          (Did("distribute", p) /\ prize_pool[p].live)
              => prize_pool'[p].total_distributed >= prize_pool[p].total_distributed ]_vars


\* The tiered schedule, in unbounded integers with truncating division.
Schedule(rank, pool_total) ==
    IF rank = 1 THEN (pool_total * 50) \div 100
    ELSE IF rank = 2 THEN (pool_total * 20) \div 100
    ELSE IF rank = 3 THEN (pool_total * 10) \div 100
    ELSE IF rank >= 4 /\ rank <= 10 THEN ((pool_total * 20) \div 100) \div 7
    ELSE 0

\* The percentage the schedule multiplies pool_total by (0: no multiplication).
SchedulePct(rank) ==
    IF rank = 1 THEN 50
    ELSE IF rank = 2 THEN 20
    ELSE IF rank = 3 THEN 10
    ELSE IF rank >= 4 /\ rank <= 10 THEN 20
    ELSE 0

\* C11: calculate(rank, pool_total) follows the tiered schedule with
\* truncating division for every rank and every pool_total whose product
\* with the rank's percentage fits u64: 50% for rank 1, 20% for rank 2, 10%
\* for rank 3, 20%/7 for each of the ranks 4..10, and 0 without an error for
\* every rank outside 1..10, rank 0 included.
C11_TieredSchedule ==
    (last.op = "calculate"
     /\ last.total_available * SchedulePct(last.winners[1].rank) < 2^U64Bits)
    => /\ last.result = "ok"
       /\ last.amounts = <<Schedule(last.winners[1].rank, last.total_available)>>

C11_Witness ==
    /\ last.op = "calculate"
    /\ last.winners[1].rank = 4
    /\ last.total_available = 1000
    /\ last.amounts = <<28>>

\* C19: the multiplication before the division never leaves u64: for every
\* pool_total of u64 and every rank, calculate returns without an error the
\* floor of pool_total * pct / 100 (then / 7 for the ranks 4..10), which is
\* never larger than pool_total.
C19_NoOverflow ==
    last.op = "calculate"
    => /\ last.result = "ok"
       /\ last.amounts = <<Schedule(last.winners[1].rank, last.total_available)>>
       /\ last.amounts[1] <= last.total_available


\* C12: close_prize_pool is callable only after distribution is complete: a
\* close succeeds only on a record on which at least one distribute_prizes
\* has succeeded; a close on a freshly opened pool is rejected.
C12_CloseAfterDistribution ==
    [][ \A p \in Periods :
          (Did("close", p) /\ last'.result = "ok") => distributed[p] ]_vars


\* The events a call owes for its batch: one for each entry whose amount is
\* positive, in the order of the batch.
RECURSIVE EventsOf(_, _, _)
EventsOf(winners, amounts, p) ==
    IF winners = <<>> THEN <<>>
    ELSE (IF Head(amounts) > 0
          THEN <<PrizeDistributed(Head(winners), Head(amounts), p)>>
          ELSE <<>>) \o EventsOf(Tail(winners), Tail(amounts), p)

\* A successful call has an amount for every entry and emits exactly the
\* events of the entries with a positive amount, in input order; what leaves
\* custody is the sum of those amounts.
EventsFollowBatch(p) ==
    /\ Len(last'.amounts) = Len(last'.winners)
    /\ last'.events = EventsOf(last'.winners, last'.amounts, p)
    /\ custody'[p] = custody[p] - SumAmounts(last'.events)

\* A successful call adds the sum of the amounts of its events to
\* total_distributed.
TotalGrowsByEvents(p) ==
    prize_pool'[p].total_distributed =
        prize_pool[p].total_distributed + SumAmounts(last'.events)

\* C13: distribute_prizes processes the batch in input order and emits one
\* event, in that order, for each entry whose amount is > 0; an entry whose
\* amount is 0 causes no transfer, no event and no error; on success
\* total_distributed has grown by exactly the sum of the amounts of the
\* events of the call.
C13_EventsAndTotal ==
    [][ \A p \in Periods :
          (Did("distribute", p) /\ last'.result = "ok")
          => (EventsFollowBatch(p) /\ TotalGrowsByEvents(p)) ]_vars


\* C14: every prize amount of one call is computed from the balance read at
\* the start of the call, not from what is left after the earlier transfers
\* of the call: two entries with the same rank are assigned the same amount;
\* a later call computes from the balance left at that later time.
C14_SingleSnapshot ==
    [][ \A p \in Periods :
          Did("distribute", p)
          => /\ last'.amounts # <<>> => last'.total_available = custody[p]
             /\ \A i \in 1..Len(last'.amounts) :
                  last'.amounts[i] = calculate_prize(last'.winners[i].rank, custody[p])
             /\ \A i, j \in 1..Len(last'.amounts) :
                  last'.winners[i].rank = last'.winners[j].rank
                  => last'.amounts[i] = last'.amounts[j] ]_vars

C14_Witness ==
    /\ last.op = "distribute"
    /\ last.result = "ok"
    /\ Len(last.winners) = 2
    /\ last.winners[1].rank = last.winners[2].rank
    /\ last.amounts[1] > 0
    /\ last.amounts[2] = last.amounts[1]
    /\ paid[last.week_id] > SumSeq(last.amounts)


EntryValid(w) == w.rank >= 1 /\ w.rank <= 10 /\ w.score >= 80

\* The error the checks of distribute_prizes owe for a call on the live
\* record p, "passed" if there is none.
FirstFailure(p, caller, winners) ==
    IF caller # prize_pool[p].authority THEN "Unauthorized"
    ELSE IF custody[p] = 0 THEN "InsufficientFunds"
    ELSE IF \E i \in 1..Len(winners) : ~EntryValid(winners[i])
    THEN LET i == CHOOSE k \in 1..Len(winners) :
                      /\ ~EntryValid(winners[k])
                      /\ \A j \in 1..(k - 1) : EntryValid(winners[j])
         IN  IF winners[i].rank < 1 \/ winners[i].rank > 10
             THEN "InvalidRank" ELSE "ScoreTooLow"
    ELSE "passed"

CheckErrors == {"Unauthorized", "InsufficientFunds", "InvalidRank", "ScoreTooLow"}

\* C15: distribute_prizes applies its checks in a fixed order and reports the
\* first that fails: Unauthorized, then InsufficientFunds (balance 0), then
\* the error of the first invalid entry in list order, InvalidRank before
\* ScoreTooLow within one entry. An authorized call with zero balance fails
\* with InsufficientFunds whatever the batch, and a failed call changes no
\* state and emits no event.
C15_CheckOrder ==
    [][ \A p \in Periods :
          (Did("distribute", p) /\ prize_pool[p].live)
          => LET e == FirstFailure(p, last'.caller, last'.winners)
             IN  /\ e # "passed" => last'.result = e
                 /\ e = "passed" => last'.result \notin CheckErrors
                 /\ last'.result # "ok"
                    => (AccountsUnchanged /\ last'.events = <<>>) ]_vars

C15_Witness ==
    /\ last.op = "distribute"
    /\ last.result = "InsufficientFunds"
    /\ prize_pool[last.week_id].live
    /\ last.caller = prize_pool[last.week_id].authority
    /\ last.winners # <<>>
    /\ ~EntryValid(last.winners[1])


\* C17: funds are conserved: for every pool the custody balance plus the
\* amounts paid to recipients plus the amount returned to the authority at
\* close equals the total ever deposited; and while the pool is Open,
\* total_distributed equals the sum of the amounts of all events emitted for
\* the record.
C17_FundsConserved ==
    \A p \in Periods :
        /\ custody[p] + paid[p] + returned[p] = deposited[p]
        /\ status[p] = "Open" => prize_pool[p].total_distributed = emitted[p]


DistinctRanks(winners) ==
    \A i, j \in 1..Len(winners) : winners[i].rank = winners[j].rank => i = j

\* C18: for a valid batch in which each rank of 1..10 appears at most once,
\* the computed amounts sum to at most the available balance, so such a call
\* by the authority on an Open pool with a positive balance never fails for
\* lack of balance, and what the amounts leave over stays in custody.
C18_ScheduleWithinBalance ==
    [][ \A p \in Periods :
          (/\ Did("distribute", p)
           /\ prize_pool[p].live
           /\ last'.caller = prize_pool[p].authority
           /\ custody[p] > 0
           /\ BatchValid(last'.winners)
           /\ DistinctRanks(last'.winners))
          => /\ SumSeq(last'.amounts) <= custody[p]
             /\ last'.result # "CustodyFailure"
             /\ last'.result = "ok"
                => custody'[p] = custody[p] - SumSeq(last'.amounts) ]_vars

C18_Witness ==
    /\ last.op = "distribute"
    /\ last.result = "ok"
    /\ Len(last.winners) = MaxRank
    /\ DistinctRanks(last.winners)
    /\ SumSeq(last.amounts) < last.total_available
    /\ custody[last.week_id] = last.total_available - SumSeq(last.amounts)

====
